---------------------------- MODULE Spec2Model ----------------------------
(***************************************************************************)
(* ProbeGenerator: the gene-SNP statement grammar (_STATEMENT_REGEX,       *)
(* _parse), GeneSnpProbe.explode and GeneSnpProbe.get_ranges of            *)
(* probe_generator/gene_snp_probe.py, and the breakpoint pipeline          *)
(* (explode_statements feeding get_sequences) of                           *)
(* probe_generator/print_probes.py.                                        *)
(*                                                                         *)
(* A Python str is a sequence of one-character strings.  A dict is a       *)
(* record.  A raised exception is the record [raised |-> <its name>].      *)
(***************************************************************************)
EXTENDS Integers, Sequences, FiniteSets, TLC

VARIABLES
    \* ---- _parse on its own (SpecParse)
    parse_in,            \* the statement handed to _parse
    parse_out,           \* what _parse returned or raised; NotRun before the call
    \* ---- GeneSnpProbe.explode, then get_ranges of each probe (Spec)
    statement,           \* explode's argument
    partial_spec,        \* explode's local: the dict _parse returned (mutated in the loop)
    transcripts,         \* explode's local: what annotation.lookup_gene returned
    txt_i,               \* number of transcripts the for loop has consumed
    cached_coordinates,  \* explode's local set of (chromosome, index)
    probes,              \* explode's local list of GeneSnpProbe specs
    snp_stderr,          \* what explode printed to sys.stderr
    snp_pc,              \* "call" | "loop" | "returned" | "raised" | "ranged"
    ranges,              \* get_ranges() of each returned probe
    \* ---- GeneSnpProbe.get_ranges on a directly constructed probe (SpecRanges)
    rng_spec,            \* self._spec
    rng_out,             \* the 3-tuple get_ranges returned; <<>> before the call
    \* ---- explode_statements feeding get_sequences (SpecPipeline)
    pl_input,            \* the statements of the run, in input order
    pl_stmt,             \* number of statements explode_statements has started
    pl_pending,          \* (spec, left, right) tuples of the current statement not yet yielded
    cached_coords,       \* get_sequences' local set of coordinate hashes
    coordinate,          \* get_sequences' local `coordinate`; Unbound before its first assignment
    bases,               \* get_sequences' local `bases`, Ok(<its value>); Unbound before its first assignment
    pl_yielded,          \* the (name, bases) pairs get_sequences yielded, with the item each came from
    pl_stderr,           \* what get_sequences printed to sys.stderr
    pl_items,            \* the items get_sequences has taken from explode_statements, in order
    pl_status            \* "running" | "done" | the name of the exception that ended the run

parse_vars == <<parse_in, parse_out>>
snp_vars == <<statement, partial_spec, transcripts, txt_i, cached_coordinates,
              probes, snp_stderr, snp_pc, ranges>>
rng_vars == <<rng_spec, rng_out>>
pl_vars == <<pl_input, pl_stmt, pl_pending, cached_coords, coordinate, bases,
             pl_yielded, pl_stderr, pl_items, pl_status>>
vars == <<parse_vars, snp_vars, rng_vars, pl_vars>>

NotRun == [notrun |-> TRUE]
Unbound == [unbound |-> TRUE]
Raised(e) == [raised |-> e]
\* a value that is returned where an exception may be raised, or bound where a
\* local may be unbound
Ok(v) == [value |-> v]
IsRaised(r) == "raised" \in DOMAIN r

(***************************************************************************)
(* Character classes of _STATEMENT_REGEX.                                  *)
(***************************************************************************)
Letters ==
    {"a","b","c","d","e","f","g","h","i","j","k","l","m","n","o","p","q","r",
     "s","t","u","v","w","x","y","z",
     "A","B","C","D","E","F","G","H","I","J","K","L","M","N","O","P","Q","R",
     "S","T","U","V","W","X","Y","Z"}

DigitChars == <<"0","1","2","3","4","5","6","7","8","9">>

Digits == {DigitChars[i] : i \in 1..10}

\* \s
Whitespace == {" ", "\t", "\n", "\r", "\f"}

\* [a-zA-Z0-9_./-]
GeneChars == Letters \cup Digits \cup {"_", ".", "/", "-"}

\* [ACGTacgt]
BaseLetters == {"A","C","G","T","a","c","g","t"}

\* the position after the longest run of characters of class cls that starts
\* after position p (p characters of s are consumed): a greedy cls*
RECURSIVE SkipWhile(_, _, _)
SkipWhile(s, p, cls) ==
    IF p < Len(s) /\ s[p + 1] \in cls THEN SkipWhile(s, p + 1, cls) ELSE p

\* a literal character at position p
At(s, p, ch) == p < Len(s) /\ s[p + 1] = ch

\* int() of a string of decimal digits
DigitValue(ch) == (CHOOSE i \in 1..10 : DigitChars[i] = ch) - 1

RECURSIVE int(_)
int(ds) ==
    IF ds = <<>> THEN 0
    ELSE 10 * int(SubSeq(ds, 1, Len(ds) - 1)) + DigitValue(ds[Len(ds)])

Slice(s, from, to) == SubSeq(s, from + 1, to)

(***************************************************************************)
(* _STATEMENT_REGEX.match(statement): the pattern is tried at the start of *)
(* the string and need not reach its end.  Every repetition of the pattern *)
(* is followed by an element that no character of the repeated class can   *)
(* start, so the greedy choice is the only one and the match is a single   *)
(* left-to-right scan.  The result is [matched, groups, end].              *)
(***************************************************************************)
NoMatch == [matched |-> FALSE]

RegexMatch(s) ==
    LET p0 == SkipWhile(s, 0, Whitespace)            \* \s*
        p1 == SkipWhile(s, p0, GeneChars)            \* ([a-zA-Z0-9_./-]+)
        p2 == SkipWhile(s, p1, Whitespace)           \* \s*
        p3 == p2 + 1                                 \* :
        p4 == SkipWhile(s, p3, Whitespace)           \* \s*
        p5 == p4 + 2                                 \* c\.
        p6 == SkipWhile(s, p5, Digits)               \* ([0-9]+)
        p7 == SkipWhile(s, p6, Whitespace)           \* \s*
        p8 == p7 + 1                                 \* ([ACGTacgt])
        p9 == SkipWhile(s, p8, Whitespace)           \* \s*
        p10 == p9 + 1                                \* >
        p11 == SkipWhile(s, p10, Whitespace)         \* \s*
        p12 == p11 + 1                               \* ([ACGTacgt])
        p13 == SkipWhile(s, p12, Whitespace)         \* \s*
        p14 == p13 + 1                               \* /
        p15 == SkipWhile(s, p14, Whitespace)         \* \s*
        p16 == SkipWhile(s, p15, Digits)             \* ([0-9]+)
        p17 == SkipWhile(s, p16, Whitespace)         \* \s*
        \* (--.*|\s*): "--" and everything up to a line break, else nothing
        \* (the whitespace before it is already consumed)
        isComment == At(s, p17, "-") /\ At(s, p17 + 1, "-")
        p18 == IF isComment
               THEN SkipWhile(s, p17 + 2, {s[i] : i \in 1..Len(s)} \ {"\n"})
               ELSE p17
    IN  IF /\ p1 > p0
           /\ At(s, p2, ":")
           /\ At(s, p4, "c") /\ At(s, p4 + 1, ".")
           /\ p6 > p5
           /\ p7 < Len(s) /\ s[p7 + 1] \in BaseLetters
           /\ At(s, p9, ">")
           /\ p11 < Len(s) /\ s[p11 + 1] \in BaseLetters
           /\ At(s, p13, "/")
           /\ p16 > p15
        THEN [matched |-> TRUE,
              groups |-> <<Slice(s, p0, p1), Slice(s, p5, p6), Slice(s, p7, p8),
                           Slice(s, p11, p12), Slice(s, p15, p16), Slice(s, p17, p18)>>,
              end |-> p18]
        ELSE NoMatch

\* _parse(statement): the partial specification, or InvalidStatement raised
_parse(s) ==
    LET match == RegexMatch(s)
    IN  IF ~match.matched THEN Raised("InvalidStatement")
        ELSE [gene |-> match.groups[1],
              base |-> int(match.groups[2]),
              reference |-> match.groups[3],
              mutation |-> match.groups[4],
              bases |-> int(match.groups[5]),
              comment |-> match.groups[6]]

(***************************************************************************)
(* reverse_complement: translate through _COMPLEMENT, then reverse.        *)
(* gene_snp_probe.py imports the function of this name from                *)
(* probe_generator.sequence; print_probes.py defines it.                   *)
(***************************************************************************)
_COMPLEMENT(ch) ==
    CASE ch = "a" -> "t" [] ch = "c" -> "g" [] ch = "g" -> "c" [] ch = "t" -> "a"
      [] ch = "A" -> "T" [] ch = "C" -> "G" [] ch = "G" -> "C" [] ch = "T" -> "A"
      [] OTHER -> ch

reverse_complement(string) ==
    [i \in 1..Len(string) |-> _COMPLEMENT(string[Len(string) + 1 - i])]

(***************************************************************************)
(* SequenceRange(chromosome, start, end, mutation=False,                   *)
(* reverse_complement=False): the 5-field tuple get_ranges unpacks and     *)
(* builds.                                                                 *)
(***************************************************************************)
SequenceRange(chromosome, start, end, mutation, rc) ==
    [chromosome |-> chromosome, start |-> start, end |-> end,
     mutation |-> mutation, reverse_complement |-> rc]

(***************************************************************************)
(* GeneSnpProbe.get_ranges on a probe whose _spec is spec.  left_buffer    *)
(* and right_buffer are its two locals.                                    *)
(***************************************************************************)
\* lines 51-53 with the parity test inverted
left_buffer_OddDecrement(spec) ==
    IF spec.bases % 2 = 1 THEN (spec.bases \div 2) - 1 ELSE spec.bases \div 2

\* lines 51-53: bases // 2, less one when bases is even (bases >= 0)
left_buffer(spec) ==
    IF spec.bases % 2 = 0 THEN (spec.bases \div 2) - 1 ELSE spec.bases \div 2

\* line 54 with the mutation taken to be one base long
right_buffer_OneBase(spec) == spec.bases - left_buffer(spec) - 1

\* line 54
right_buffer(spec) == spec.bases - left_buffer(spec) - Len(spec.mutation)

get_ranges(spec) ==
    LET start == spec.index.start
        end == spec.index.end
        chromosome == spec.chromosome
    IN  << SequenceRange(chromosome, start - left_buffer(spec), start, FALSE, FALSE),
           SequenceRange(chromosome, start, end, TRUE, spec.strand = "-"),
           SequenceRange(chromosome, end, end + right_buffer(spec), FALSE, FALSE) >>

(***************************************************************************)
(* GeneSnpProbe.explode.  A transcript is [name, plus_strand, chromosome,  *)
(* index] where index is what txt.nucleotide_index(base) gives for the     *)
(* statement's base: a SequenceRange, or OutOfRange raised (the transcript *)
(* module is a collaborator).  Names are the numbers 1, 2, ...             *)
(***************************************************************************)
\* lines 88-90: the mutation of partial_spec is overwritten in place
StrandStep(ps, txt) ==
    IF ~txt.plus_strand
    THEN [ps EXCEPT !.mutation = reverse_complement(ps.mutation)]
    ELSE ps

\* lines 93-95 without the except clause: OutOfRange leaves explode
ExceptOutOfRange_Reraise(err, error, stmt) ==
    [stderr |-> err, exc |-> error]

\* lines 93-95 with `pass` for the print
ExceptOutOfRange_Silent(err, error, stmt) ==
    [stderr |-> err, exc |-> NotRun]

\* lines 93-95: the except branch of the try: err is sys.stderr so far, error
\* the exception caught; exc is the exception that leaves the branch, NotRun
\* for none
ExceptOutOfRange(err, error, stmt) ==
    [stderr |-> Append(err, [error |-> error.raised, statement |-> stmt]),
     exc |-> NotRun]

\* lines 98-99: the key of cached_coordinates
CoordKey(chromosome, index) == <<chromosome, index>>

\* line 99 left out
CacheAdd_Forgets(cache, key) == cache

\* line 99: cached_coordinates.add(key)

CacheAdd(cache, key) == cache \cup {key}

\* lines 100-105: dict(partial_spec, strand=..., chromosome=..., ...)
ProbeSpec(ps, txt, index) ==
    [gene |-> ps.gene, base |-> ps.base, reference |-> ps.reference,
     mutation |-> ps.mutation, bases |-> ps.bases, comment |-> ps.comment,
     strand |-> IF txt.plus_strand THEN "+" ELSE "-",
     chromosome |-> txt.chromosome,
     transcript |-> txt.name,
     index |-> index,
     index_base |-> index.start + 1]

\* lines 87-106: one iteration of the for loop
ExplodeBody(ps, txt, cache, prbs, err, stmt) ==
    LET ps1 == StrandStep(ps, txt)
        index == txt.index
        key == CoordKey(txt.chromosome, index)
    IN  IF IsRaised(index)
        THEN LET h == ExceptOutOfRange(err, index, stmt)
             IN  [partial_spec |-> ps1, cached |-> cache, probes |-> prbs,
                  stderr |-> h.stderr, exc |-> h.exc]
        ELSE IF key \notin cache
        THEN [partial_spec |-> ps1, cached |-> CacheAdd(cache, key),
              probes |-> Append(prbs, ProbeSpec(ps1, txt, index)),
              stderr |-> err, exc |-> NotRun]
        ELSE [partial_spec |-> ps1, cached |-> cache, probes |-> prbs,
              stderr |-> err, exc |-> NotRun]

(***************************************************************************)
(* Inputs of explode: the statement, and the transcripts lookup_gene       *)
(* returns for its gene.                                                   *)
(***************************************************************************)
MaxTranscripts == 3
MaxBases == 4

Chromosomes == {"chr1", "chr2"}

\* genomic positions a coding position maps to
IndexStarts == {10, 11}

\* str(n) for n >= 0
RECURSIVE DecimalDigits(_)
DecimalDigits(n) ==
    IF n < 10 THEN <<DigitChars[n + 1]>>
    ELSE DecimalDigits(n \div 10) \o <<DigitChars[(n % 10) + 1]>>

\* "g:c.7A><mutation>/<bases>"
SnpStatement(mutation, n) ==
    <<"g", ":", "c", ".", "7", "A", ">", mutation, "/">> \o DecimalDigits(n)

SnpStatements ==
    {SnpStatement(m, 21) : m \in {"A", "g"}}
    \cup {SnpStatement("C", n) : n \in 0..MaxBases}
    \cup {<<"g", ":", "7", "A", ">", "C", "/", "2", "1">>}

IndexResults(chromosome) ==
    {Raised("OutOfRange")}
    \cup {SequenceRange(chromosome, s, s + 1, FALSE, FALSE) : s \in IndexStarts}

TranscriptsNamed(name) ==
    {[name |-> name, plus_strand |-> ps, chromosome |-> c, index |-> ix] :
        ps \in BOOLEAN, <<c, ix>> \in {<<c, ix>> \in
            Chromosomes \X UNION {IndexResults(d) : d \in Chromosomes} :
            IsRaised(ix) \/ ix.chromosome = c}}

TranscriptLists ==
    UNION {{ts \in [1..n -> UNION {TranscriptsNamed(i) : i \in 1..n}] :
                \A i \in 1..n : ts[i].name = i} : n \in 0..MaxTranscripts}

SnpIdle ==
    /\ statement = <<>> /\ partial_spec = NotRun /\ transcripts = <<>>
    /\ txt_i = 0 /\ cached_coordinates = {} /\ probes = <<>>
    /\ snp_stderr = <<>> /\ snp_pc = "idle" /\ ranges = <<>>

SnpInit ==
    /\ statement \in SnpStatements
    /\ partial_spec = NotRun /\ transcripts = <<>>
    /\ txt_i = 0 /\ cached_coordinates = {} /\ probes = <<>>
    /\ snp_stderr = <<>> /\ snp_pc = "call" /\ ranges = <<>>

\* lines 78-85: _parse raises InvalidStatement out of explode, or the loop
\* starts on the transcripts of the gene
ExplodeCall ==
    /\ snp_pc = "call"
    /\ partial_spec' = _parse(statement)
    /\ IF IsRaised(partial_spec')
       THEN /\ snp_pc' = "raised"
            /\ UNCHANGED transcripts
       ELSE /\ snp_pc' = "loop"
            /\ transcripts' \in TranscriptLists
    /\ txt_i' = 0 /\ cached_coordinates' = {} /\ probes' = <<>>
    /\ UNCHANGED <<statement, snp_stderr, ranges>>
    /\ UNCHANGED <<parse_vars, rng_vars, pl_vars>>

\* lines 86-106: the next transcript
ExplodeLoop ==
    /\ snp_pc = "loop"
    /\ txt_i < Len(transcripts)
    /\ LET r == ExplodeBody(partial_spec, transcripts[txt_i + 1], cached_coordinates,
                            probes, snp_stderr, statement)
       IN  /\ partial_spec' = r.partial_spec
           /\ cached_coordinates' = r.cached
           /\ probes' = r.probes
           /\ snp_stderr' = r.stderr
           /\ snp_pc' = IF IsRaised(r.exc) THEN "raised" ELSE "loop"
    /\ txt_i' = txt_i + 1
    /\ UNCHANGED <<statement, transcripts, ranges>>
    /\ UNCHANGED <<parse_vars, rng_vars, pl_vars>>

\* line 107: return probes
ExplodeReturn ==
    /\ snp_pc = "loop"
    /\ txt_i = Len(transcripts)
    /\ snp_pc' = "returned"
    /\ UNCHANGED <<statement, partial_spec, transcripts, txt_i, cached_coordinates,
                   probes, snp_stderr, ranges>>
    /\ UNCHANGED <<parse_vars, rng_vars, pl_vars>>

\* the caller takes get_ranges() of every probe explode returned
ProbesGetRanges ==
    /\ snp_pc = "returned"
    /\ ranges' = [i \in 1..Len(probes) |-> get_ranges(probes[i])]
    /\ snp_pc' = "ranged"
    /\ UNCHANGED <<statement, partial_spec, transcripts, txt_i, cached_coordinates,
                   probes, snp_stderr>>
    /\ UNCHANGED <<parse_vars, rng_vars, pl_vars>>

(***************************************************************************)
(* Inputs of _parse: well-formed statements, and every string one edit     *)
(* away from one (a span deleted, a character replaced, a character        *)
(* inserted).                                                              *)
(***************************************************************************)
MaxDelete == 2

EditChars == {" ", ":", "c", ".", "1", "A", ">", "/", "-", "#"}

WellFormedStatements ==
    { <<"g", ":", "c", ".", "1", "A", ">", "G", "/", "2">>,
      <<" ", "g", " ", ":", " ", "c", ".", "1", "2", " ", "a", " ", ">", " ", "t",
        " ", "/", " ", "2", "1", " ">>,
      <<"g", ":", "c", ".", "1", "A", ">", "G", "/", "2", " ", "-", "-", "#">> }

DeleteSpan(s, i, n) == SubSeq(s, 1, i - 1) \o SubSeq(s, i + n, Len(s))

ReplaceAt(s, i, ch) == [s EXCEPT ![i] = ch]

InsertAt(s, i, ch) == SubSeq(s, 1, i - 1) \o <<ch>> \o SubSeq(s, i, Len(s))

EditsOf(s) ==
    {s}
    \cup {DeleteSpan(s, i, n) : <<i, n>> \in
            {<<i, n>> \in (1..Len(s)) \X (1..MaxDelete) : i + n - 1 <= Len(s)}}
    \cup {ReplaceAt(s, i, ch) : i \in 1..Len(s), ch \in EditChars}
    \cup {InsertAt(s, i, ch) : i \in 1..(Len(s) + 1), ch \in EditChars}

ParseInputs == UNION {EditsOf(s) : s \in WellFormedStatements}

ParseIdle == parse_in = <<>> /\ parse_out = NotRun

ParseInit == parse_in \in ParseInputs /\ parse_out = NotRun

\* the call _parse(statement)
ParseCall ==
    /\ parse_out = NotRun
    /\ parse_in # <<>>
    /\ parse_out' = _parse(parse_in)
    /\ UNCHANGED <<parse_in, snp_vars, rng_vars, pl_vars>>

(***************************************************************************)
(* Inputs of get_ranges on its own: a GeneSnpProbe built from any spec     *)
(* dict, with a mutation of 1 to MaxMutation letters.                      *)
(***************************************************************************)
MaxMutation == 3
MaxRangeBases == 12

Mutations ==
    {m \in UNION {[1..n -> {"A", "c"}] : n \in 1..MaxMutation} : TRUE}

RangeSpecs ==
    {[gene |-> <<"g">>, base |-> 7, reference |-> <<"A">>, mutation |-> m,
      bases |-> b, comment |-> <<>>, strand |-> sd, chromosome |-> c,
      transcript |-> 1,
      index |-> SequenceRange(c, s, s + Len(m), FALSE, FALSE),
      index_base |-> s + 1] :
        m \in Mutations, b \in 0..MaxRangeBases, sd \in {"+", "-"},
        c \in {"chr1"}, s \in {100}}

RangesIdle == rng_spec = NotRun /\ rng_out = <<>>

RangesInit == rng_spec \in RangeSpecs /\ rng_out = <<>>

\* the call probe.get_ranges()
RangesCall ==
    /\ rng_out = <<>>
    /\ rng_spec # NotRun
    /\ rng_out' = get_ranges(rng_spec)
    /\ UNCHANGED <<rng_spec, parse_vars, snp_vars, pl_vars>>

(***************************************************************************)
(* The breakpoint pipeline.  The collaborators of print_probes.py are      *)
(* inputs: probe_statement.parse gives a specification or raises           *)
(* InvalidStatement, and the expansion of a statement over its rows is the *)
(* list of its (spec, left_row, right_row) tuples, each with what          *)
(* sequence.sequence_range gives for it: a coordinate dict, or             *)
(* NoFeatureError raised.                                                  *)
(***************************************************************************)
\* the reference genome: chromosome name -> bases
ref_genome == [chr1 |-> <<"A", "C", "G", "T", "T", "G", "A">>]

\* reference.bases(genome, chromosome, start, end)
reference_bases(genome, chromosome, start, end) ==
    IF chromosome \notin DOMAIN genome THEN Raised("MissingChromosome")
    ELSE Ok(SubSeq(genome[chromosome], start + 1, end))

\* lines 59-77; an exception of either lookup leaves the function
bases_from_coordinate(c, genome) ==
    LET first_bases == reference_bases(genome, c.chromosome1, c.start1, c.end1)
        second_bases == reference_bases(genome, c.chromosome2, c.start2, c.end2)
    IN  IF IsRaised(first_bases) THEN first_bases
        ELSE IF IsRaised(second_bases) THEN second_bases
        ELSE Ok((IF c.rc_side_1 THEN reverse_complement(first_bases.value)
                 ELSE first_bases.value)
                \o (IF c.rc_side_2 THEN reverse_complement(second_bases.value)
                    ELSE second_bases.value))

\* the keys of a coordinate dict, in the order sorted() puts them
SortedKeys ==
    <<"chromosome1", "chromosome2", "end1", "end2", "rc_side_1", "rc_side_2",
      "start1", "start2">>

\* lines 175-181, with sorted(dictionary) in place of sorted(dictionary.items())
dict_hash_KeysOnly(dictionary) == [i \in 1..Len(SortedKeys) |-> <<SortedKeys[i]>>]

\* lines 175-181: hash(tuple(sorted(dictionary.items()))).  The hash of the
\* tuple is taken as the tuple: two different tuples never collide here.
dict_hash(dictionary) ==
    [i \in 1..Len(SortedKeys) |-> <<SortedKeys[i], dictionary[SortedKeys[i]]>>]

\* lines 42-56: the header is made of the tuple's own spec and rows (its id)
\* and of the coordinates
probe_name(item, coord) == [item |-> item.id, coordinate |-> coord]

\* lines 156-172: one iteration of get_sequences' for loop on `item`, from the
\* locals coord and bs and the set cache.  exc is the exception that leaves
\* the generator, NotRun if none.
GetSequencesBody(item, coord, bs, cache, genome) ==
    LET sr == item.sr                                        \* line 158
        bfc == IF IsRaised(sr) THEN sr
               ELSE bases_from_coordinate(sr, genome)        \* line 159
        failed == IsRaised(sr) \/ IsRaised(bfc)
        coord1 == IF IsRaised(sr) THEN coord ELSE sr
        bs1 == IF failed THEN bs ELSE bfc
        err1 == IF failed                                    \* lines 160-161
                THEN <<[kind |-> "Skipping", item |-> item.id,
                        error |-> IF IsRaised(sr) THEN sr.raised ELSE bfc.raised]>>
                ELSE <<>>
        out(cch, yld, err, exc) ==
            [coordinate |-> coord1, bases |-> bs1, cached |-> cch,
             yielded |-> yld, stderr |-> err, exc |-> exc]
    IN  IF coord1 = Unbound                                  \* line 162
        THEN out(cache, <<>>, err1, Raised("UnboundLocalError"))
        ELSE LET coord_hash == dict_hash(coord1)
             IN  IF coord_hash \notin cache                  \* line 163
                 THEN IF bs1 = Unbound                       \* lines 164-165
                      THEN out(cache \cup {coord_hash}, <<>>, err1,
                               Raised("UnboundLocalError"))
                      ELSE out(cache \cup {coord_hash},
                               <<[name |-> probe_name(item, coord1), bases |-> bs1.value]>>,
                               err1, NotRun)
                 ELSE out(cache, <<>>,                       \* lines 166-172
                          err1 \o <<[kind |-> "redundant", item |-> item.id,
                                     error |-> "none"]>>,
                          NotRun)

(***************************************************************************)
(* Inputs of the pipeline.                                                 *)
(***************************************************************************)
MaxStatements == 3
MaxRunItems == 3

Coordinate(chromosome1, start1, rc) ==
    [chromosome1 |-> chromosome1, start1 |-> start1, end1 |-> start1 + 2,
     chromosome2 |-> "chr1", start2 |-> 4, end2 |-> 6,
     rc_side_1 |-> rc, rc_side_2 |-> FALSE]

\* what sequence_range gives for a tuple
RangeResults ==
    { Coordinate("chr1", 0, FALSE), Coordinate("chr1", 1, TRUE),
      Coordinate("chrM", 0, FALSE), Raised("NoFeatureError") }

\* a statement: InvalidStatement raised by probe_statement.parse, or what
\* sequence_range gives for each tuple of its expansion
StatementsUpTo(k) ==
    {[parse |-> "InvalidStatement", items |-> <<>>]}
    \cup {[parse |-> "ok", items |-> its] :
            its \in UNION {[1..n -> RangeResults] : n \in 0..k}}

\* the runs of at most n statements with at most k tuples in all
RECURSIVE RunsUpTo(_, _)
RunsUpTo(n, k) ==
    IF n = 0 THEN {<<>>}
    ELSE {<<>>} \cup UNION {{<<s>> \o rest : rest \in RunsUpTo(n - 1, k - Len(s.items))} :
                                s \in StatementsUpTo(k)}

PipelineInputs == RunsUpTo(MaxStatements, MaxRunItems)

PipelineIdle ==
    /\ pl_input = <<>> /\ pl_stmt = 0 /\ pl_pending = <<>> /\ cached_coords = {}
    /\ coordinate = Unbound /\ bases = Unbound /\ pl_yielded = <<>>
    /\ pl_stderr = <<>> /\ pl_items = <<>> /\ pl_status = "idle"

PipelineInit ==
    /\ pl_input \in PipelineInputs
    /\ pl_stmt = 0 /\ pl_pending = <<>> /\ cached_coords = {}
    /\ coordinate = Unbound /\ bases = Unbound /\ pl_yielded = <<>>
    /\ pl_stderr = <<>> /\ pl_items = <<>> /\ pl_status = "running"

\* lines 88-100: get_sequences asks explode_statements for its next tuple and
\* the generator starts the next statement.  InvalidStatement is caught
\* nowhere: it leaves explode_statements, get_sequences and the run.
ExplodeStatementsNext ==
    /\ pl_status = "running"
    /\ pl_pending = <<>>
    /\ pl_stmt < Len(pl_input)
    /\ LET s == pl_input[pl_stmt + 1]
       IN  IF s.parse # "ok"
           THEN /\ pl_status' = s.parse
                /\ UNCHANGED pl_pending
           ELSE /\ pl_pending' = [j \in 1..Len(s.items) |->
                                    [id |-> <<pl_stmt + 1, j>>, sr |-> s.items[j]]]
                /\ UNCHANGED pl_status
    /\ pl_stmt' = pl_stmt + 1
    /\ UNCHANGED <<pl_input, cached_coords, coordinate, bases, pl_yielded,
                   pl_stderr, pl_items>>
    /\ UNCHANGED <<parse_vars, snp_vars, rng_vars>>

\* lines 155-172: the loop body on the next tuple
GetSequencesItem ==
    /\ pl_status = "running"
    /\ pl_pending # <<>>
    /\ LET item == Head(pl_pending)
           r == GetSequencesBody(item, coordinate, bases, cached_coords, ref_genome)
       IN  /\ coordinate' = r.coordinate
           /\ bases' = r.bases
           /\ cached_coords' = r.cached
           /\ pl_yielded' = pl_yielded \o r.yielded
           /\ pl_stderr' = pl_stderr \o r.stderr
           /\ pl_status' = IF IsRaised(r.exc) THEN r.exc.raised ELSE "running"
           /\ pl_items' = Append(pl_items, item)
    /\ pl_pending' = Tail(pl_pending)
    /\ UNCHANGED <<pl_input, pl_stmt>>
    /\ UNCHANGED <<parse_vars, snp_vars, rng_vars>>

\* the input is exhausted: both generators end
GetSequencesEnd ==
    /\ pl_status = "running"
    /\ pl_pending = <<>>
    /\ pl_stmt = Len(pl_input)
    /\ pl_status' = "done"
    /\ UNCHANGED <<pl_input, pl_stmt, pl_pending, cached_coords, coordinate, bases,
                   pl_yielded, pl_stderr, pl_items>>
    /\ UNCHANGED <<parse_vars, snp_vars, rng_vars>>

(***************************************************************************)
(* Specifications.                                                         *)
(***************************************************************************)
\* GeneSnpProbe.explode on a statement, then get_ranges of its probes
Init == SnpInit /\ ParseIdle /\ RangesIdle /\ PipelineIdle

Next == ExplodeCall \/ ExplodeLoop \/ ExplodeReturn \/ ProbesGetRanges

Spec == Init /\ [][Next]_vars

\* _parse on a statement
InitParse == ParseInit /\ SnpIdle /\ RangesIdle /\ PipelineIdle

NextParse == ParseCall

SpecParse == InitParse /\ [][NextParse]_vars

\* get_ranges on a probe
InitRanges == RangesInit /\ SnpIdle /\ ParseIdle /\ PipelineIdle

NextRanges == RangesCall

SpecRanges == InitRanges /\ [][NextRanges]_vars

\* explode_statements feeding get_sequences
InitPipeline == PipelineInit /\ SnpIdle /\ ParseIdle /\ RangesIdle

NextPipeline == ExplodeStatementsNext \/ GetSequencesItem \/ GetSequencesEnd

SpecPipeline == InitPipeline /\ [][NextPipeline]_vars

(***************************************************************************)
(* GeneSnpProbe.explode: properties (Spec).                                *)
(***************************************************************************)
\* the transcripts the loop has consumed
Consumed == 1..txt_i

Mapped(i) == ~IsRaised(transcripts[i].index)

KeyOf(i) == <<transcripts[i].chromosome, transcripts[i].index>>

\* transcript i is the first consumed transcript that maps to its (chromosome, index)
FirstOfKey(i) ==
    Mapped(i) /\ \A j \in 1..(i - 1) : Mapped(j) => KeyOf(j) # KeyOf(i)

ProbesOf(i) == {k \in 1..Len(probes) : probes[k].transcript = transcripts[i].name}

InExplode == snp_pc \in {"loop", "returned", "ranged"}

\* C1: the probe built for a minus-strand transcript carries the reverse
\* complement of the statement's literal mutation letter, whatever came before
\* it in the iteration.
C1_MinusStrandMutation ==
    InExplode =>
        \A k \in 1..Len(probes) :
            probes[k].strand = "-" =>
                probes[k].mutation = reverse_complement(_parse(statement).mutation)

\* C4: at most one probe per distinct (chromosome, index); it carries the name
\* and strand of the first transcript that mapped to the pair; the probes are in
\* the order their transcripts were first seen.
C4_FirstTranscriptWins ==
    InExplode =>
        /\ \A k, l \in 1..Len(probes) :
               k # l => <<probes[k].chromosome, probes[k].index>>
                        # <<probes[l].chromosome, probes[l].index>>
        /\ \A k \in 1..Len(probes) :
               \E i \in Consumed :
                   /\ FirstOfKey(i)
                   /\ KeyOf(i) = <<probes[k].chromosome, probes[k].index>>
                   /\ probes[k].transcript = transcripts[i].name
                   /\ probes[k].strand = (IF transcripts[i].plus_strand THEN "+" ELSE "-")
        /\ \A k, l \in 1..Len(probes) :
               k < l => probes[k].transcript < probes[l].transcript

\* two transcripts of different strands map to one pair, a third to another,
\* and explode has returned
C4_Witness ==
    /\ snp_pc = "returned"
    /\ Len(probes) = 2
    /\ \E i, j \in Consumed :
           /\ i < j /\ Mapped(i) /\ Mapped(j) /\ KeyOf(i) = KeyOf(j)
           /\ transcripts[i].plus_strand # transcripts[j].plus_strand

\* C5: a transcript whose nucleotide_index raises OutOfRange yields no probe
\* and adds nothing to cached_coordinates, the exception does not leave
\* explode, and every transcript that maps to a pair not seen before it still
\* yields a probe.
C5_OutOfRangeSkipsOneTranscript ==
    /\ snp_pc = "raised" => IsRaised(partial_spec)
    /\ InExplode =>
        /\ \A i \in Consumed : ~Mapped(i) => ProbesOf(i) = {}
        /\ cached_coordinates = {KeyOf(i) : i \in {j \in Consumed : Mapped(j)}}
        /\ \A i \in Consumed : FirstOfKey(i) => Cardinality(ProbesOf(i)) = 1

\* OutOfRange for the first and the last transcript, a probe for the one between
C5_Witness ==
    /\ snp_pc = "returned"
    /\ txt_i = 3
    /\ ~Mapped(1) /\ Mapped(2) /\ ~Mapped(3)
    /\ Len(probes) = 1 /\ probes[1].transcript = transcripts[2].name

FlankLengths(k) ==
    [left |-> ranges[k][1].end - ranges[k][1].start,
     right |-> ranges[k][3].end - ranges[k][3].start]

C10_NoNegativeBuffer ==
    snp_pc = "ranged" =>
        \A k \in 1..Len(probes) :
            /\ Len(probes[k].mutation) = 1
            /\ probes[k].bases = _parse(statement).bases
            /\ probes[k].bases >= 1 =>
                   FlankLengths(k).left >= 0 /\ FlankLengths(k).right >= 0
            /\ (FlankLengths(k).left < 0 \/ FlankLengths(k).right < 0) =>
                   probes[k].bases = 0

\* the smallest probe: one base, both flanks empty
C10_Witness ==
    /\ snp_pc = "ranged"
    /\ Len(probes) >= 1
    /\ probes[1].bases = 1
    /\ FlankLengths(1) = [left |-> 0, right |-> 0]

(***************************************************************************)
(* _parse: properties (SpecParse).                                         *)
(***************************************************************************)
\* the statement grammar matched in full: the pattern, up to the end of the string
FullMatch(s) == RegexMatch(s).matched /\ RegexMatch(s).end = Len(s)

\* C6: _parse returns a specification only for strings that match the grammar
\* in full; every other string raises InvalidStatement.
C6_OnlyFullMatchesParse ==
    parse_out # NotRun => (IsRaised(parse_out) <=> ~FullMatch(parse_in))

(***************************************************************************)
(* get_ranges: properties (SpecRanges).                                    *)
(***************************************************************************)
\* C7: exactly three ranges [start - L, start), [start, end), [end, end + R) on
\* the spec's chromosome with L = bases // 2, less 1 when bases is even, and
\* R = bases - L - mutationBases, so L + mutationBases + R = bases; the middle
\* range alone is the mutation site, reverse-complemented iff the strand is minus.
C7_ThreeRanges ==
    rng_out # <<>> =>
        LET b == rng_spec.bases
            m == Len(rng_spec.mutation)
            start == rng_spec.index.start
            end == rng_spec.index.end
            L == IF b % 2 = 0 THEN (b \div 2) - 1 ELSE b \div 2
            R == b - L - m
        IN  /\ Len(rng_out) = 3
            /\ \A k \in 1..3 : rng_out[k].chromosome = rng_spec.chromosome
            /\ <<rng_out[1].start, rng_out[1].end>> = <<start - L, start>>
            /\ <<rng_out[2].start, rng_out[2].end>> = <<start, end>>
            /\ <<rng_out[3].start, rng_out[3].end>> = <<end, end + R>>
            /\ (rng_out[1].end - rng_out[1].start) + m
                   + (rng_out[3].end - rng_out[3].start) = b
            /\ <<rng_out[1].mutation, rng_out[2].mutation, rng_out[3].mutation>>
                   = <<FALSE, TRUE, FALSE>>
            /\ rng_out[2].reverse_complement = (rng_spec.strand = "-")
            /\ ~rng_out[1].reverse_complement /\ ~rng_out[3].reverse_complement

\* an even length, a three-base mutation, the minus strand
C7_Witness ==
    /\ rng_out # <<>>
    /\ rng_spec.bases = 8 /\ Len(rng_spec.mutation) = 3 /\ rng_spec.strand = "-"
    /\ rng_out[2].reverse_complement

(***************************************************************************)
(* The breakpoint pipeline: properties (SpecPipeline).                     *)
(***************************************************************************)
\* sequence_range or bases_from_coordinate fails for the coordinates result sr
FailsToResolve(sr) ==
    IsRaised(sr) \/ IsRaised(bases_from_coordinate(sr, ref_genome))

YieldedFor(id) == {k \in 1..Len(pl_yielded) : pl_yielded[k].name.item = id}

\* C2: an item whose sequence_range or bases lookup fails with NoFeatureError
\* or MissingChromosome yields no (name, bases) pair.
C2_FailedItemYieldsNothing ==
    \A i \in 1..Len(pl_items) :
        FailsToResolve(pl_items[i].sr) => YieldedFor(pl_items[i].id) = {}

\* the items of the input, in input order: <<statement, position>>
InputItems ==
    {<<s, j>> \in (1..Len(pl_input)) \X (1..MaxRunItems) : j <= Len(pl_input[s].items)}

Before(a, b) == a[1] < b[1] \/ (a[1] = b[1] /\ a[2] < b[2])

SrOf(a) == pl_input[a[1]].items[a[2]]

\* well-formed, resolvable and not redundant: no item before it in the input
\* has its coordinates
Emittable(a) ==
    /\ ~FailsToResolve(SrOf(a))
    /\ \A b \in InputItems : Before(b, a) => SrOf(b) # SrOf(a)

\* C3: a malformed or unresolvable statement never aborts the run: once the
\* run has ended, every well-formed, resolvable, non-redundant item of the
\* input has had its probe emitted.
C3_RunNeverAborted ==
    pl_status \notin {"running", "idle"} =>
        \A a \in InputItems : Emittable(a) => YieldedFor(a) # {}

\* the candidates of the deduplication: the items that resolved
Candidate(item) == ~FailsToResolve(item.sr)

\* C8, the state part: no two yielded probes have equal coordinate dicts, and a
\* yielded probe is the first item of the run with its coordinates.
C8_YieldedAreFirstSeen ==
    /\ \A k, l \in 1..Len(pl_yielded) :
           k # l => pl_yielded[k].name.coordinate # pl_yielded[l].name.coordinate
    /\ \A k \in 1..Len(pl_yielded) :
           \E i \in 1..Len(pl_items) :
               /\ pl_items[i].id = pl_yielded[k].name.item
               /\ \A j \in 1..(i - 1) :
                      pl_items[j].sr # pl_yielded[k].name.coordinate

\* C8, the step part: the recorded set only grows; a candidate whose
\* coordinates are recorded is rejected with the redundant diagnostic; a
\* candidate whose coordinates are not is recorded and yielded.
C8_GateStep ==
    /\ cached_coords \subseteq cached_coords'
    /\ pl_items' # pl_items =>
           LET item == pl_items'[Len(pl_items')]
               seen == \E j \in 1..Len(pl_items) :
                           Candidate(pl_items[j]) /\ pl_items[j].sr = item.sr
           IN  Candidate(item) =>
                      IF seen
                      THEN /\ cached_coords' = cached_coords
                           /\ pl_yielded' = pl_yielded
                           /\ pl_stderr' = Append(pl_stderr,
                                  [kind |-> "redundant", item |-> item.id,
                                   error |-> "none"])
                      ELSE /\ cached_coords' # cached_coords
                           /\ pl_yielded' = Append(pl_yielded,
                                  [name |-> probe_name(item, item.sr),
                                   bases |-> bases_from_coordinate(item.sr, ref_genome).value])
                           /\ pl_stderr' = pl_stderr

\* C8: within one run, across its statements, a candidate with recorded
\* coordinates is rejected as redundant and one with unseen coordinates is
\* accepted and recorded; no two yielded probes have equal coordinates, the
\* yielded one is the first seen, and the recorded set only grows.
C8_RunWideDedup == [](C8_YieldedAreFirstSeen) /\ [][C8_GateStep]_vars

\* a probe of the second statement rejected for coordinates the first
\* statement recorded, after which another is accepted
C8_Witness ==
    /\ Len(pl_yielded) = 2
    /\ Cardinality(cached_coords) = 2
    /\ \E k \in 1..Len(pl_stderr) :
           /\ pl_stderr[k].kind = "redundant"
           /\ pl_stderr[k].item[1] = 2
    /\ pl_yielded[1].name.item[1] = 1
    /\ pl_yielded[2].name.item[1] = 2

=============================================================================
